---- MODULE Spec2Model ----
(***************************************************************************)
(* NeuralFinance Chat (src/app_groq.py): a Streamlit script that keeps a   *)
(* ledger of transactions in a SQLite table, mirrors it in session state,  *)
(* renders KPIs and charts, offers exports and talks to a hosted chat      *)
(* model.  One user interaction is one top-to-bottom pass of the script;   *)
(* st.rerun() abandons the pass and starts a fresh one with no widget      *)
(* active.  Each action below is one interaction, reruns included.         *)
(*                                                                         *)
(* Amounts are in cents (0.01 is 1).  Timestamps are the seconds of the    *)
(* "%Y-%m-%d %H:%M:%S" strings, whose text order is their time order.      *)
(***************************************************************************)
EXTENDS Integers, Sequences, FiniteSets, TLC

VARIABLES
    store,               \* rows of table transacoes, in insertion order
    nextId,              \* next AUTOINCREMENT id of transacoes
    now,                 \* the wall clock, in seconds
    openpyxl,            \* whether the openpyxl library can be imported
    data,                \* st.session_state.data
    messages,            \* st.session_state.messages
    show_entrada_modal,  \* st.session_state.show_entrada_modal
    show_saida_modal,    \* st.session_state.show_saida_modal
    notices,             \* st.success / st.error / st.warning / st.info calls of the interaction
    downloads,           \* st.download_button calls of the last pass
    passError,           \* the unhandled exception that ended the last pass, or "none"
    lastChat,            \* prompt, response and export branch of the last chat pass
    appended,            \* history: the arguments of the successful inserts since the table was last emptied
    call                 \* an export function applied to an input model (SpecExport)

vars == <<store, nextId, now, openpyxl, data, messages, show_entrada_modal,
          show_saida_modal, notices, downloads, passError, lastChat,
          appended, call>>

----------------------------------------------------------------------------
(* Bounds *)

MaxId == 1           \* inserts over the life of the table
MaxCat == 1          \* categories offered per selectbox (a prefix of the list)
MaxMsgs == 2         \* chat transcript length at which the user stops chatting
MaxLen == 2          \* rows of an input model of SpecExport
MaxRows == 2         \* inserts over the life of the table in SpecStore

(* Program constants *)

MinValor == 1            \* number_input min_value=0.01
DefaultValor == 10000    \* number_input value=100.00

Min(a, b) == IF a < b THEN a ELSE b

Prefix(s, n) == {s[i] : i \in 1..Min(n, Len(s))}

categorias_saida ==
    <<"Moradia", "Alimentação", "Transporte", "Saúde", "Lazer", "Educação",
      "Investimentos", "Outros">>
categorias_entrada == <<"Salário", "Freelance", "Investimentos", "Presente", "Outros">>
categorias_entrada_modal ==
    <<"Salário", "Freelance", "Investimentos", "Presente", "Bônus", "Outros">>
categorias_saida_modal ==
    <<"Moradia", "Alimentação", "Transporte", "Saúde", "Lazer", "Educação",
      "Investimentos", "Contas", "Outros">>

Tipos == {"Saída", "Entrada"}
\* A plausible slip: number_input with min_value=0.0
FillingsFromZero == {[valor |-> 0, desc |-> ""], [valor |-> DefaultValor, desc |-> "mercado"]}

\* What the user fills in: the smallest amount with no description, or the
\* default amount with one
Fillings == {[valor |-> MinValor, desc |-> ""], [valor |-> DefaultValor, desc |-> "mercado"]}

----------------------------------------------------------------------------
(* Ledger store: table transacoes *)

\* descricao if descricao else "Sem descrição"
DescricaoOuPadrao(descricao) == IF descricao = "" THEN "Sem descrição" ELSE descricao

\* float(valor): the form's number is already a float; REAL keeps all 8 bytes
Float(valor) == valor

\* A plausible slip: INSERT OR REPLACE keyed on the timestamp
save_replacing_same_data(st, id, categoria, tipo, valor, descricao, data_hora) ==
    LET kept == SelectSeq(st, LAMBDA r : r.data # data_hora)
    IN  Append(kept, [id |-> id, data |-> data_hora, categoria |-> categoria,
                      tipo |-> tipo, valor |-> Float(valor),
                      descricao |-> DescricaoOuPadrao(descricao)])

\* save_transaction_to_db, the path that returns True: the table after the INSERT
save_transaction_to_db(st, id, categoria, tipo, valor, descricao, data_hora) ==
    Append(st, [id |-> id, data |-> data_hora, categoria |-> categoria,
                tipo |-> tipo, valor |-> Float(valor),
                descricao |-> DescricaoOuPadrao(descricao)])

\* A plausible slip: DELETE with a leftover WHERE clause
delete_only_saidas(st) == SelectSeq(st, LAMBDA r : r.tipo # "Saída")

\* delete_all_transactions, the path that returns True: DELETE FROM transacoes
delete_all_transactions(st) == <<>>

\* SELECT data, categoria, tipo, valor, descricao, with the columns renamed
Columns(r) ==
    [Data |-> r.data, Categoria |-> r.categoria, Tipo |-> r.tipo,
     Valor |-> r.valor, Descricao |-> r.descricao]

SortedDesc(df) == \A i \in 1..Len(df) : \A j \in 1..Len(df) :
                      i < j => df[i].Data >= df[j].Data

\* load_transactions_from_db: the frames it can return.  ORDER BY data DESC
\* leaves the order of rows with equal data to SQLite; on an exception the
\* result is the empty frame.
load_transactions_from_db(st, ok) ==
    IF ~ok THEN {<<>>}
    ELSE {df \in {[i \in 1..Len(st) |-> Columns(st[p[i]])] :
                      p \in Permutations(1..Len(st))} : SortedDesc(df)}

\* A plausible slip: the row appended without looking at what the save returned
add_transaction_sem_verificar(df, categoria, tipo, valor, descricao, data_hora, saved) ==
    Append(df, [Data |-> data_hora, Categoria |-> categoria, Tipo |-> tipo,
                Valor |-> Float(valor),
                Descricao |-> DescricaoOuPadrao(descricao)])

\* add_transaction: the frame it returns (the caller assigns it to session data)
add_transaction(df, categoria, tipo, valor, descricao, data_hora, saved) ==
    IF saved
    THEN Append(df, [Data |-> data_hora, Categoria |-> categoria, Tipo |-> tipo,
                     Valor |-> Float(valor),
                     Descricao |-> DescricaoOuPadrao(descricao)])
    ELSE df

----------------------------------------------------------------------------
(* Texts.  A message is kept in the state as its text; the substring tests *)
(* of the code run on its characters.  The emoji that open some texts are *)
(* left out; no test in the code reads them.                               *)

\* The characters of the texts the model uses
Chars(text) ==
    CASE text = "qual meu saldo?" ->
      <<"q", "u", "a", "l", " ", "m", "e", "u", " ", "s", "a", "l", "d", "o",
        "?">>
      [] text = "pode gerar um orçamento?" ->
      <<"p", "o", "d", "e", " ", "g", "e", "r", "a", "r", " ", "u", "m", " ",
        "o", "r", "ç", "a", "m", "e", "n", "t", "o", "?">>
      [] text = "Gere uma PLANILHA" ->
      <<"G", "e", "r", "e", " ", "u", "m", "a", " ", "P", "L", "A", "N", "I",
        "L", "H", "A">>
      [] text = "export my budget report" ->
      <<"e", "x", "p", "o", "r", "t", " ", "m", "y", " ", "b", "u", "d", "g",
        "e", "t", " ", "r", "e", "p", "o", "r", "t">>
      [] text = "Analise meus gastos" ->
      <<"A", "n", "a", "l", "i", "s", "e", " ", "m", "e", "u", "s", " ", "g",
        "a", "s", "t", "o", "s">>
      [] text = "Crie uma planilha de orçamento" ->
      <<"C", "r", "i", "e", " ", "u", "m", "a", " ", "p", "l", "a", "n", "i",
        "l", "h", "a", " ", "d", "e", " ", "o", "r", "ç", "a", "m", "e", "n",
        "t", "o">>
      [] text = "Qual meu maior gasto?" ->
      <<"Q", "u", "a", "l", " ", "m", "e", "u", " ", "m", "a", "i", "o", "r",
        " ", "g", "a", "s", "t", "o", "?">>
      [] text = "Seu saldo está positivo." ->
      <<"S", "e", "u", " ", "s", "a", "l", "d", "o", " ", "e", "s", "t", "á",
        " ", "p", "o", "s", "i", "t", "i", "v", "o", ".">>
      [] text = "EXPORTAR_PLANILHA: orcamento" ->
      <<"E", "X", "P", "O", "R", "T", "A", "R", "_", "P", "L", "A",
        "N", "I", "L", "H", "A", ":", " ", "o", "r", "c", "a", "m", "e", "n",
        "t", "o">>
      [] text = "Preparando planilha de orcamento..." ->
      <<"P", "r", "e", "p", "a", "r", "a", "n", "d", "o", " ", "p", "l", "a",
        "n", "i", "l", "h", "a", " ", "d", "e", " ", "o", "r", "c", "a", "m",
        "e", "n", "t", "o", ".", ".", ".">>
      [] text = "**Erro ao conectar com Groq API**: timeout" ->
      <<"*", "*", "E", "r", "r", "o", " ", "a", "o", " ", "c", "o",
        "n", "e", "c", "t", "a", "r", " ", "c", "o", "m", " ", "G", "r", "o",
        "q", " ", "A", "P", "I", "*", "*", ":", " ", "t", "i", "m", "e", "o",
        "u", "t">>
      [] text = "**Erro de Configuração**: A chave da API Groq não está configurada." ->
      <<"*", "*", "E", "r", "r", "o", " ", "d", "e", " ", "C",
        "o", "n", "f", "i", "g", "u", "r", "a", "ç", "ã", "o", "*", "*", ":",
        " ", "A", " ", "c", "h", "a", "v", "e", " ", "d", "a", " ", "A", "P",
        "I", " ", "G", "r", "o", "q", " ", "n", "ã", "o", " ", "e", "s", "t",
        "á", " ", "c", "o", "n", "f", "i", "g", "u", "r", "a", "d", "a", ".">>

keywords ==
    <<<<"p", "l", "a", "n", "i", "l", "h", "a">>,
      <<"e", "x", "c", "e", "l">>,
      <<"e", "x", "p", "o", "r", "t", "a", "r">>,
      <<"d", "o", "w", "n", "l", "o", "a", "d">>,
      <<"b", "a", "i", "x", "a", "r">>,
      <<"o", "r", "ç", "a", "m", "e", "n", "t", "o">>,
      <<"r", "e", "l", "a", "t", "ó", "r", "i", "o">>,
      <<"a", "n", "á", "l", "i", "s", "e", " ", "d", "e", "t", "a", "l", "h", "a", "d", "a">>,
      <<"s", "p", "r", "e", "a", "d", "s", "h", "e", "e", "t">>>>

Sentinel == <<"E", "X", "P", "O", "R", "T", "A", "R", "_", "P", "L", "A", "N", "I", "L", "H", "A">>

UpperChars == <<"A", "B", "C", "D", "E", "F", "G", "H", "I", "J", "K", "L", "M", "N",
        "O", "P", "Q", "R", "S", "T", "U", "V", "W", "X", "Y", "Z", "Ç", "Á",
        "Ã", "Â", "É", "Ê", "Í", "Ó", "Ô", "Õ", "Ú">>

LowerChars == <<"a", "b", "c", "d", "e", "f", "g", "h", "i", "j", "k", "l", "m", "n",
        "o", "p", "q", "r", "s", "t", "u", "v", "w", "x", "y", "z", "ç", "á",
        "ã", "â", "é", "ê", "í", "ó", "ô", "õ", "ú">>

\* str.lower(), on the letters that occur
LowerChar(c) ==
    IF \E i \in 1..Len(UpperChars) : UpperChars[i] = c
    THEN LowerChars[CHOOSE i \in 1..Len(UpperChars) : UpperChars[i] = c]
    ELSE c

Lower(s) == [i \in 1..Len(s) |-> LowerChar(s[i])]

\* needle in hay
Contains(hay, needle) ==
    \E i \in 0..(Len(hay) - Len(needle)) :
        \A j \in 1..Len(needle) : hay[i + j] = needle[j]

\* A plausible slip: the keywords tested against the message as typed
parse_without_lower(user_message) ==
    \E k \in 1..Len(keywords) : Contains(Chars(user_message), keywords[k])

\* parse_ai_request_for_export
parse_ai_request_for_export(user_message) ==
    \E k \in 1..Len(keywords) : Contains(Lower(Chars(user_message)), keywords[k])

suggestions ==
    <<"Analise meus gastos", "Crie uma planilha de orçamento", "Qual meu maior gasto?">>

\* What the user types into st.chat_input
Prompts ==
    {"qual meu saldo?", "pode gerar um orçamento?", "Gere uma PLANILHA",
     "export my budget report"}

ConfigErrorText == "**Erro de Configuração**: A chave da API Groq não está configurada."
ApiErrorText == "**Erro ao conectar com Groq API**: timeout"

\* What the hosted model can answer
Replies ==
    {"Seu saldo está positivo.", "EXPORTAR_PLANILHA: orcamento",
     "Preparando planilha de orcamento..."}

\* get_groq_chat_response: the texts it can return; it never raises
get_groq_chat_response(key_configured) ==
    IF ~key_configured THEN {ConfigErrorText} ELSE Replies \cup {ApiErrorText}

----------------------------------------------------------------------------
(* Export generator *)

RECURSIVE SumValor(_, _)
\* df[df['Tipo'] == tipo]['Valor'].sum()
SumValor(df, tipo) ==
    IF df = <<>> THEN 0
    ELSE (IF Head(df).Tipo = tipo THEN Head(df).Valor ELSE 0) + SumValor(Tail(df), tipo)

RECURSIVE InsertDesc(_, _)
InsertDesc(sorted, r) ==
    IF sorted = <<>> THEN <<r>>
    ELSE IF Head(sorted).Data >= r.Data
         THEN <<Head(sorted)>> \o InsertDesc(Tail(sorted), r)
         ELSE <<r>> \o sorted

RECURSIVE SortValuesDesc(_)
\* df.sort_values('Data', ascending=False); rows with equal Data keep their order
SortValuesDesc(df) ==
    IF df = <<>> THEN <<>>
    ELSE InsertDesc(SortValuesDesc(SubSeq(df, 1, Len(df) - 1)), df[Len(df)])

\* What an attempt to write a workbook can do: with openpyxl missing the import
\* fails; with it present the writer works or raises something else.
ExcelOutcomes(lib) == IF lib THEN {"ok", "Exception"} ELSE {"ImportError"}

NoPayload ==
    [kind |-> "none", bom |-> FALSE, header |-> "", label |-> "", rows |-> <<>>,
     sheets |-> <<>>, size |-> 0]

\* A delimited-text payload: a header line and one line per row
Delimited(header, df, bom) ==
    [kind |-> "delimited", bom |-> bom, header |-> header, label |-> "", rows |-> df,
     sheets |-> <<>>, size |-> Len(df) + 1]

\* An .xlsx workbook with the named sheets, the first holding the rows
Workbook(sheets, df) ==
    [kind |-> "workbook", bom |-> FALSE, header |-> "", label |-> "", rows |-> df,
     sheets |-> sheets, size |-> Len(sheets) + Len(df)]

\* Plain text: a line of prose (its label) and, in a report, the rows after it
PlainText(label, df, bom) ==
    [kind |-> "text", bom |-> bom, header |-> "", label |-> label, rows |-> df,
     sheets |-> <<>>, size |-> Len(df) + 1]

Notice(level, text) == [level |-> level, text |-> text]

Returned(payload, tag, shown) ==
    [raised |-> FALSE, payload |-> payload, tag |-> tag, notices |-> shown]

Raised(shown) ==
    [raised |-> TRUE, payload |-> NoPayload, tag |-> "none", notices |-> shown]

\* A plausible slip: the empty-model shortcut of create_excel_export removed, so
\* that an empty frame goes to the writer like any other
create_excel_export_no_guard(df, xo) ==
    CASE xo = "ok" ->
           Returned(Workbook(<<"Transações">>, df), "xlsx",
                    <<Notice("info", "Excel gerado")>>)
      [] xo = "ImportError" ->
           Returned(Delimited("Data,Categoria,Tipo,Valor,Descrição", df, TRUE), "csv",
                    <<Notice("warning", "openpyxl não instalado. Exportando como CSV.")>>)
      [] OTHER ->
           Returned(Delimited("Data,Categoria,Tipo,Valor,Descrição", df, TRUE), "csv",
                    <<Notice("error", "Erro ao gerar Excel")>>)

\* create_excel_export: (output, tag), and the notices it shows
create_excel_export(df, xo) ==
    IF df = <<>>
    THEN Returned(Delimited("Data,Categoria,Tipo,Valor,Descricao", <<>>, FALSE), "csv",
                  <<Notice("warning", "Nenhuma transação para exportar!")>>)
    ELSE CASE xo = "ok" ->
                Returned(Workbook(<<"Transações">>, df), "xlsx",
                         <<Notice("info", "Excel gerado")>>)
           [] xo = "ImportError" ->
                Returned(Delimited("Data,Categoria,Tipo,Valor,Descrição", df, TRUE), "csv",
                         <<Notice("warning", "openpyxl não instalado. Exportando como CSV.")>>)
           [] OTHER ->
                Returned(Delimited("Data,Categoria,Tipo,Valor,Descrição", df, TRUE), "csv",
                         <<Notice("error", "Erro ao gerar Excel")>>)

\* The sheets create_budget_spreadsheet writes for a non-empty frame whose
\* timestamps all parse
BudgetSheets(df) ==
    <<"Transações", "Resumo Categorias", "Resumo Mensal", "Indicadores">>
    \o (IF \E i \in 1..Len(df) : df[i].Tipo = "Saída" THEN <<"Top 20 Gastos">> ELSE <<>>)

\* format(x, '.1f') of a quotient num/den, in tenths: the nearest tenth, a
\* quotient exactly half-way going to the even one
RoundTenths(num, den) ==
    LET q == num \div den
        r == num % den
    IN  IF 2 * r < den THEN q
        ELSE IF 2 * r > den THEN q + 1
        ELSE IF q % 2 = 0 THEN q ELSE q + 1

\* A plausible slip: the quotient not multiplied by 100
taxa_sem_percentual(saldo, entrada_total) ==
    IF entrada_total > 0 THEN RoundTenths(saldo * 10, entrada_total) ELSE 0

\* Lines 515 and 546: (saldo/entrada_total*100) if entrada_total > 0 else 0,
\* printed with one decimal; the result is in tenths of a percent
taxa_de_poupanca(saldo, entrada_total) ==
    IF entrada_total > 0 THEN RoundTenths(saldo * 1000, entrada_total) ELSE 0

\* Lines 504-518 and 530-547: the indicators of the workbook's sheet
\* 'Indicadores' and of the text report
Indicadores(df) ==
    LET entrada_total == SumValor(df, "Entrada")
        saida_total   == SumValor(df, "Saída")
        saldo         == entrada_total - saida_total
    IN  [entrada_total |-> entrada_total, saida_total |-> saida_total, saldo |-> saldo,
         taxa |-> taxa_de_poupanca(saldo, entrada_total), n |-> Len(df)]

\* create_budget_spreadsheet: (output, tag), or the exception it lets through:
\* only ImportError is caught
create_budget_spreadsheet(df, xo) ==
    IF df = <<>>
    THEN Returned(PlainText("Nenhuma transacao registrada ainda.", <<>>, FALSE), "csv", <<>>)
    ELSE CASE xo = "ok" ->
                Returned(Workbook(BudgetSheets(df), SortValuesDesc(df))
                             @@ [indicadores |-> Indicadores(df)], "xlsx", <<>>)
           [] xo = "ImportError" ->
                Returned(PlainText("RELATÓRIO FINANCEIRO NEURALFINANCE",
                                   SortValuesDesc(df), TRUE)
                             @@ [indicadores |-> Indicadores(df)], "txt", <<>>)
           [] OTHER -> Raised(<<>>)

----------------------------------------------------------------------------
(* Financial summary *)

\* head(3), line 370
TopN == 3

\* The categories that have at least one 'Saída' row
CategoriasDeGasto(df) == {df[i].Categoria : i \in {j \in 1..Len(df) : df[j].Tipo = "Saída"}}

RECURSIVE GastoDe(_, _)
\* One group of df[df['Tipo'] == 'Saída'].groupby('Categoria')['Valor'].sum()
GastoDe(df, cat) ==
    IF df = <<>> THEN 0
    ELSE (IF Head(df).Tipo = "Saída" /\ Head(df).Categoria = cat THEN Head(df).Valor ELSE 0)
         + GastoDe(Tail(df), cat)

RECURSIVE SortSumsDesc(_, _)
\* sort_values(ascending=False) over the groups: the orders it can produce;
\* the order of groups with equal sums is left to the sort
SortSumsDesc(df, cats) ==
    IF cats = {} THEN {<<>>}
    ELSE UNION {{<<[cat |-> c, val |-> GastoDe(df, c)]>> \o rest :
                     rest \in SortSumsDesc(df, cats \ {c})} :
                c \in {c \in cats : \A d \in cats : GastoDe(df, c) >= GastoDe(df, d)}}

\* A plausible slip: the groups taken over every row, income included
gastos_categoria_todas(df) ==
    LET all == [i \in 1..Len(df) |-> [df[i] EXCEPT !.Tipo = "Saída"]]
    IN  SortSumsDesc(all, CategoriasDeGasto(all))

\* Line 359: gastos_categoria
gastos_categoria(df) == SortSumsDesc(df, CategoriasDeGasto(df))

\* Line 351: the sentence returned for an empty frame
NoDataSummary ==
    [text |-> "Nenhuma transação registrada ainda.", entrada |-> 0, saida |-> 0,
     saldo |-> 0, n |-> 0, top |-> <<>>]

\* The figures quoted by the text of lines 361-371
Resumo(entrada, saida, saldo, n, top) ==
    [text |-> "RESUMO FINANCEIRO", entrada |-> entrada, saida |-> saida,
     saldo |-> saldo, n |-> n, top |-> top]

\* A plausible slip: the balance taken the wrong way round
get_financial_summary_saldo_invertido(df) ==
    IF df = <<>> THEN {NoDataSummary}
    ELSE {Resumo(SumValor(df, "Entrada"), SumValor(df, "Saída"),
                 SumValor(df, "Saída") - SumValor(df, "Entrada"), Len(df),
                 SubSeq(g, 1, Min(TopN, Len(g)))) : g \in gastos_categoria(df)}

\* get_financial_summary: the summaries it can return
get_financial_summary(df) ==
    IF df = <<>> THEN {NoDataSummary}
    ELSE {Resumo(SumValor(df, "Entrada"), SumValor(df, "Saída"),
                 SumValor(df, "Entrada") - SumValor(df, "Saída"), Len(df),
                 SubSeq(g, 1, Min(TopN, Len(g)))) : g \in gastos_categoria(df)}

----------------------------------------------------------------------------
(* One pass of the script below the sidebar: KPIs, charts, table exports,  *)
(* chat.                                                                   *)

XlsxMime == "application/vnd.openxmlformats-officedocument.spreadsheetml.sheet"

Download(origin, res, file_ext, mime) ==
    [origin |-> origin, tag |-> res.tag, kind |-> res.payload.kind,
     file_ext |-> file_ext, mime |-> mime]

\* Lines 845-856 and 927-937: the simple export's button
SimpleDownload(origin, res) ==
    Download(origin, res,
             IF res.tag = "xlsx" THEN "xlsx" ELSE "csv",
             IF res.tag = "xlsx" THEN XlsxMime ELSE "text/csv")

\* Lines 870-881: the budget export's button under the transaction table
TableBudgetDownload(res) ==
    Download("table_orcamento", res,
             IF res.tag = "xlsx" THEN "xlsx" ELSE "txt",
             IF res.tag = "xlsx" THEN XlsxMime ELSE "text/plain")

\* Lines 942-952: the budget export's button in the chat
ChatBudgetDownload(res) ==
    Download("chat_orcamento", res,
             IF res.tag = "xlsx" THEN "xlsx" ELSE "csv",
             IF res.tag = "xlsx" THEN XlsxMime ELSE "text/csv")

\* Lines 859-867: df.to_csv offered directly, no generator and no tag involved
CsvSimplesDownload ==
    [origin |-> "table_csv_simples", tag |-> "csv", kind |-> "delimited",
     file_ext |-> "csv", mime |-> "text/csv"]

HasSaida(df) == \E i \in 1..Len(df) : df[i].Tipo = "Saída"

NoError == "none"
ErrExpensesChart == "NameError: create_expenses_chart (line 828)"
ErrTableBudget == "Exception: create_budget_spreadsheet (line 870)"
ErrChatBudget == "Exception: create_budget_spreadsheet (line 942)"
ErrFileType2 == "NameError: file_type2 (line 954)"

Section(error, offered, shown) ==
    [error |-> error, downloads |-> offered, notices |-> shown]

\* Lines 804-886.  create_expenses_chart is defined nowhere: the def line of
\* the timeline chart is missing, its body is dead code after the return of
\* parse_ai_request_for_export, and the pie chart carries the name
\* create_timeline_chart.
KpiSection(df, x1, x2) ==
    IF df = <<>>
    THEN Section(NoError, {}, <<Notice("info", "Comece agora")>>)
    ELSE IF HasSaida(df)
    THEN Section(ErrExpensesChart, {}, <<>>)
    ELSE LET simple == create_excel_export(df, x1)
             budget == create_budget_spreadsheet(df, x2)
             first  == {SimpleDownload("table_transacoes", simple), CsvSimplesDownload}
             shown  == <<Notice("info", "Adicione gastos para ver a distribuição")>>
                       \o simple.notices
         IN  IF budget.raised
             THEN Section(ErrTableBudget, first, shown)
             ELSE Section(NoError, first \cup {TableBudgetDownload(budget)}, shown)

Message(role, content, n, saldo) ==
    [role |-> role, content |-> content, n |-> n, saldo |-> saldo]

Saldo(df) == SumValor(df, "Entrada") - SumValor(df, "Saída")

\* Lines 894-898: the greeting, which quotes len(df) and the balance
Greeting(msgs, df) ==
    IF msgs = <<>> /\ df # <<>>
    THEN <<Message("assistant", "Olá! Sou o NeuralFinance AI", Len(df), Saldo(df))>>
    ELSE msgs

NoChat == [prompt |-> "", response |-> "", offered |-> FALSE, file_type2 |-> "none"]

\* A plausible slip: the closing check written with the budget export's tag
\* first, so that it is read before the simple export's tag can decide
ExportOffer_budget_tag_first(df, x3, x4) ==
    LET simple == create_excel_export(df, x3)
        budget == create_budget_spreadsheet(df, x4)
        first  == {SimpleDownload("chat_transacoes", simple)}
        file_type2 == IF df # <<>> THEN budget.tag ELSE "unassigned"
        note == IF file_type2 = "csv" \/ simple.tag = "csv"
                THEN <<Notice("info", "Biblioteca Excel não instalada")>> ELSE <<>>
    IN  IF df # <<>> /\ budget.raised
        THEN [error |-> ErrChatBudget, downloads |-> first, notices |-> simple.notices,
              file_type2 |-> "unassigned"]
        ELSE IF file_type2 = "unassigned"
        THEN [error |-> ErrFileType2, downloads |-> first, notices |-> simple.notices,
              file_type2 |-> "unassigned"]
        ELSE [error |-> NoError,
              downloads |-> first \cup {ChatBudgetDownload(budget)},
              notices |-> simple.notices \o note
                  \o <<Notice("success", "Planilhas prontas para download!")>>,
              file_type2 |-> file_type2]

\* Lines 919-957: the export branch of the chat handler
ExportOffer(df, x3, x4) ==
    LET simple == create_excel_export(df, x3)
        budget == create_budget_spreadsheet(df, x4)
        first  == {SimpleDownload("chat_transacoes", simple)}
        file_type2 == IF df # <<>> THEN budget.tag ELSE "unassigned"
        note == IF simple.tag = "csv" \/ file_type2 = "csv"
                THEN <<Notice("info", "Biblioteca Excel não instalada")>> ELSE <<>>
    IN  IF df # <<>> /\ budget.raised
        THEN [error |-> ErrChatBudget, downloads |-> first, notices |-> simple.notices,
              file_type2 |-> "unassigned"]
        ELSE IF simple.tag # "csv" /\ file_type2 = "unassigned"
        THEN [error |-> ErrFileType2, downloads |-> first, notices |-> simple.notices,
              file_type2 |-> "unassigned"]
        ELSE [error |-> NoError,
              downloads |-> first \cup
                  (IF df # <<>> THEN {ChatBudgetDownload(budget)} ELSE {}),
              notices |-> simple.notices \o note
                  \o <<Notice("success", "Planilhas prontas para download!")>>,
              file_type2 |-> file_type2]

\* Line 919
ExportTrigger(prompt, response) ==
    parse_ai_request_for_export(prompt) \/ Contains(Chars(response), Sentinel)

----------------------------------------------------------------------------
(* The session and its interactions *)

\* No function applied yet (SpecStore, SpecExport)
NoCall == [fn |-> "none", df |-> <<>>, xo |-> "ok", result |-> Raised(<<>>)]

Init ==
    /\ store = <<>>
    /\ nextId = 1
    /\ now = 0
    /\ openpyxl \in BOOLEAN
    /\ data = <<>>
    /\ messages = <<>>
    /\ show_entrada_modal = FALSE
    /\ show_saida_modal = FALSE
    /\ notices = <<Notice("info", "Comece agora")>>
    /\ downloads = {}
    /\ passError = NoError
    /\ lastChat = NoChat
    /\ appended = <<>>
    /\ call = NoCall

\* The workbook writer's outcomes for the table exports of a pass over df; the
\* writer is reached only when lines 845 and 870 run
TableWriter(df) ==
    IF df # <<>> /\ ~HasSaida(df) THEN ExcelOutcomes(openpyxl)
    ELSE {CHOOSE xo \in ExcelOutcomes(openpyxl) : TRUE}

\* The writer's outcomes for the exports of the chat branch; with an empty frame
\* neither export reaches the writer
ChatWriter(runs) ==
    IF runs THEN ExcelOutcomes(openpyxl)
    ELSE {CHOOSE xo \in ExcelOutcomes(openpyxl) : TRUE}

\* The rest of a pass in which no widget below the sidebar fires (also the
\* whole pass that follows st.rerun()): lines 711-984
FinishPass(df, msgs, shown, x1, x2) ==
    LET k == KpiSection(df, x1, x2)
    IN  /\ passError' = k.error
        /\ downloads' = k.downloads
        /\ notices' = shown \o k.notices
        /\ messages' = IF k.error = NoError THEN Greeting(msgs, df) ELSE msgs
        /\ lastChat' = NoChat

\* add_transaction as its three callers use it: the INSERT, then the frame
Submit(categoria, tipo, valor, descricao, data_hora, saved) ==
    /\ nextId <= MaxId
    /\ now' = data_hora
    /\ store' = IF saved
                THEN save_transaction_to_db(store, nextId, categoria, tipo, valor,
                                            descricao, data_hora)
                ELSE store
    /\ nextId' = IF saved THEN nextId + 1 ELSE nextId
    /\ appended' = IF saved
                   THEN Append(appended, [Data |-> data_hora, Categoria |-> categoria,
                                          Tipo |-> tipo, Valor |-> valor])
                   ELSE appended
    /\ data' = add_transaction(data, categoria, tipo, valor, descricao, data_hora, saved)

SaveNotices(saved) ==
    IF saved THEN <<>> ELSE <<Notice("error", "Erro ao salvar transação")>>

\* datetime.now(): this second or the next.  Only the order of the timestamps
\* matters, and MaxId inserts show every order within MaxId seconds.
Clock == now..Min(now + 1, MaxId - 1)

\* Lines 672-693: the sidebar form; the pass goes on after it
SubmitEntryForm ==
    \E tipo \in Tipos, f \in Fillings, saved \in BOOLEAN, data_hora \in Clock :
      \E categoria \in Prefix(IF tipo = "Saída" THEN categorias_saida
                              ELSE categorias_entrada, MaxCat) :
       \E x1 \in TableWriter(add_transaction(data, categoria, tipo, f.valor, f.desc,
                                             data_hora, saved)),
          x2 \in TableWriter(add_transaction(data, categoria, tipo, f.valor, f.desc,
                                             data_hora, saved)) :
        /\ Submit(categoria, tipo, f.valor, f.desc, data_hora, saved)
        /\ FinishPass(data', messages,
                      SaveNotices(saved)
                      \o <<Notice("success", "Transação adicionada com sucesso!")>>,
                      x1, x2)
        /\ UNCHANGED <<openpyxl, show_entrada_modal, show_saida_modal, call>>

\* Lines 665-668: "Recarregar do Banco"
RecarregarDoBanco ==
    \E ok \in BOOLEAN :
      \E df \in load_transactions_from_db(store, ok) :
       \E x1 \in TableWriter(df), x2 \in TableWriter(df) :
        /\ data' = df
        /\ FinishPass(df, messages,
                      (IF ok THEN <<>> ELSE <<Notice("error", "Erro ao carregar dados")>>)
                      \o <<Notice("success", "Dados recarregados!")>>,
                      x1, x2)
        /\ UNCHANGED <<store, nextId, now, openpyxl, show_entrada_modal, show_saida_modal,
                       appended, call>>

\* Lines 699-704: "Limpar Dados"
LimparDados ==
    \E ok \in BOOLEAN :
      \E x1 \in TableWriter(IF ok THEN <<>> ELSE data),
         x2 \in TableWriter(IF ok THEN <<>> ELSE data) :
        /\ store' = IF ok THEN delete_all_transactions(store) ELSE store
        /\ appended' = IF ok THEN <<>> ELSE appended
        /\ data' = IF ok THEN <<>> ELSE data
        /\ FinishPass(data', messages,
                      IF ok
                      THEN <<Notice("success", "Todos os dados foram deletados do banco!")>>
                      ELSE <<Notice("error", "Erro ao limpar dados")>>,
                      x1, x2)
        /\ UNCHANGED <<nextId, now, openpyxl, show_entrada_modal, show_saida_modal, call>>

\* Lines 706-709: "Limpar Chat"
LimparChat ==
    \E x1 \in TableWriter(data), x2 \in TableWriter(data) :
        /\ FinishPass(data, <<>>, <<>>, x1, x2)
        /\ UNCHANGED <<store, nextId, now, openpyxl, data, show_entrada_modal,
                       show_saida_modal, appended, call>>

\* Lines 717-720: "Nova Entrada"
NovaEntrada ==
    \E x1 \in TableWriter(data), x2 \in TableWriter(data) :
        /\ show_entrada_modal' = TRUE
        /\ FinishPass(data, messages, <<>>, x1, x2)
        /\ UNCHANGED <<store, nextId, now, openpyxl, data, show_saida_modal, appended, call>>

\* Lines 722-725: "Nova Saída"
NovaSaida ==
    \E x1 \in TableWriter(data), x2 \in TableWriter(data) :
        /\ show_saida_modal' = TRUE
        /\ FinishPass(data, messages, <<>>, x1, x2)
        /\ UNCHANGED <<store, nextId, now, openpyxl, data, show_entrada_modal, appended, call>>

\* Lines 752-759: "Confirmar Entrada"
ConfirmarEntrada ==
    \E f \in Fillings, saved \in BOOLEAN, data_hora \in Clock,
       categoria \in Prefix(categorias_entrada_modal, MaxCat) :
       \E x1 \in TableWriter(add_transaction(data, categoria, "Entrada", f.valor, f.desc,
                                             data_hora, saved)),
          x2 \in TableWriter(add_transaction(data, categoria, "Entrada", f.valor, f.desc,
                                             data_hora, saved)) :
        /\ show_entrada_modal
        /\ Submit(categoria, "Entrada", f.valor, f.desc, data_hora, saved)
        /\ show_entrada_modal' = FALSE
        /\ FinishPass(data', messages,
                      SaveNotices(saved) \o <<Notice("success", "Entrada adicionada!")>>,
                      x1, x2)
        /\ UNCHANGED <<openpyxl, show_saida_modal, call>>

\* Lines 761-764: "Cancelar" of the income form
CancelarEntrada ==
    \E x1 \in TableWriter(data), x2 \in TableWriter(data) :
        /\ show_entrada_modal
        /\ show_entrada_modal' = FALSE
        /\ FinishPass(data, messages, <<>>, x1, x2)
        /\ UNCHANGED <<store, nextId, now, openpyxl, data, show_saida_modal, appended, call>>

\* Lines 788-794: "Confirmar Saída"
ConfirmarSaida ==
    \E f \in Fillings, saved \in BOOLEAN, data_hora \in Clock,
       categoria \in Prefix(categorias_saida_modal, MaxCat) :
       \E x1 \in TableWriter(add_transaction(data, categoria, "Saída", f.valor, f.desc,
                                             data_hora, saved)),
          x2 \in TableWriter(add_transaction(data, categoria, "Saída", f.valor, f.desc,
                                             data_hora, saved)) :
        /\ show_saida_modal
        /\ Submit(categoria, "Saída", f.valor, f.desc, data_hora, saved)
        /\ show_saida_modal' = FALSE
        /\ FinishPass(data', messages,
                      SaveNotices(saved) \o <<Notice("success", "Saída adicionada!")>>,
                      x1, x2)
        /\ UNCHANGED <<openpyxl, show_entrada_modal, call>>

\* Lines 796-799: "Cancelar" of the expense form
CancelarSaida ==
    \E x1 \in TableWriter(data), x2 \in TableWriter(data) :
        /\ show_saida_modal
        /\ show_saida_modal' = FALSE
        /\ FinishPass(data, messages, <<>>, x1, x2)
        /\ UNCHANGED <<store, nextId, now, openpyxl, data, show_entrada_modal, appended, call>>

\* The chat input is on the page when the last pass got as far as line 906
ChatInputRendered == passError \in {NoError, ErrChatBudget, ErrFileType2}

\* The suggestion buttons are on the page when the last pass got to line 963
\* with a non-empty frame
SuggestionsRendered == passError = NoError /\ data # <<>>

\* Lines 906-960: a message typed into the chat input.  The pass first runs
\* lines 804-898 and only then the handler.
ChatInput ==
    \E prompt \in Prompts, key \in BOOLEAN, x1 \in TableWriter(data), x2 \in TableWriter(data) :
      \E response \in get_groq_chat_response(key) :
       \E x3 \in ChatWriter(data # <<>>), x4 \in ChatWriter(data # <<>>) :
        LET k     == KpiSection(data, x1, x2)
            msgs1 == Append(Greeting(messages, data), Message("user", prompt, 0, 0))
            trig  == ExportTrigger(prompt, response)
            offer == ExportOffer(data, x3, x4)
            msgs2 == Append(msgs1, Message("assistant", response, 0, 0))
        IN  /\ ChatInputRendered
            /\ Len(messages) < MaxMsgs
            /\ IF k.error # NoError
               THEN /\ passError' = k.error
                    /\ downloads' = k.downloads
                    /\ notices' = k.notices
                    /\ messages' = messages
                    /\ lastChat' = NoChat
               ELSE IF ~trig
               THEN /\ passError' = NoError
                    /\ downloads' = k.downloads
                    /\ notices' = k.notices
                    /\ messages' = msgs2
                    /\ lastChat' = [prompt |-> prompt, response |-> response,
                                    offered |-> FALSE, file_type2 |-> "none"]
               ELSE /\ passError' = offer.error
                    /\ downloads' = k.downloads \cup offer.downloads
                    /\ notices' = k.notices \o offer.notices
                    /\ messages' = IF offer.error = NoError THEN msgs2 ELSE msgs1
                    /\ lastChat' = [prompt |-> prompt, response |-> response,
                                    offered |-> TRUE, file_type2 |-> offer.file_type2]
            /\ UNCHANGED <<store, nextId, now, openpyxl, data, show_entrada_modal,
                           show_saida_modal, appended, call>>

\* Lines 975-978: a suggestion button.  The pass first runs lines 804-960,
\* appends the suggestion as a user message and reruns.
ClickSuggestion ==
    \E i \in 1..Len(suggestions), x1 \in TableWriter(data), x2 \in TableWriter(data),
       x3 \in TableWriter(data), x4 \in TableWriter(data) :
        LET k == KpiSection(data, x1, x2)
        IN  /\ SuggestionsRendered
            /\ Len(messages) < MaxMsgs
            /\ IF k.error # NoError
               THEN /\ passError' = k.error
                    /\ downloads' = k.downloads
                    /\ notices' = k.notices
                    /\ messages' = messages
                    /\ lastChat' = NoChat
               ELSE FinishPass(data,
                               Append(Greeting(messages, data),
                                      Message("user", suggestions[i], 0, 0)),
                               <<>>, x3, x4)
            /\ UNCHANGED <<store, nextId, now, openpyxl, data, show_entrada_modal,
                           show_saida_modal, appended, call>>

Next ==
    \/ SubmitEntryForm
    \/ RecarregarDoBanco
    \/ LimparDados
    \/ LimparChat
    \/ NovaEntrada
    \/ NovaSaida
    \/ ConfirmarEntrada
    \/ CancelarEntrada
    \/ ConfirmarSaida
    \/ CancelarSaida
    \/ ChatInput
    \/ ClickSuggestion

Spec == Init /\ [][Next]_vars

----------------------------------------------------------------------------
(* The ledger store on its own: any sequence of calls of its three         *)
(* functions, each succeeding or failing.                                  *)

StoreClock == now..Min(now + 1, MaxRows - 1)

\* save_transaction_to_db(categoria, tipo, valor, descricao, data)
StoreAppend ==
    \E tipo \in Tipos, f \in Fillings, saved \in BOOLEAN, data_hora \in StoreClock :
      \E categoria \in Prefix(IF tipo = "Saída" THEN categorias_saida
                              ELSE categorias_entrada, MaxCat) :
        /\ nextId <= MaxRows
        /\ now' = data_hora
        /\ store' = IF saved
                    THEN save_transaction_to_db(store, nextId, categoria, tipo, f.valor,
                                                f.desc, data_hora)
                    ELSE store
        /\ nextId' = IF saved THEN nextId + 1 ELSE nextId
        /\ appended' = IF saved
                       THEN Append(appended, [Data |-> data_hora, Categoria |-> categoria,
                                              Tipo |-> tipo, Valor |-> f.valor])
                       ELSE appended
        /\ call' = [fn |-> "save_transaction_to_db", df |-> <<>>,
                    xo |-> IF saved THEN "ok" ELSE "Exception", result |-> Raised(<<>>)]
        /\ UNCHANGED <<openpyxl, data, messages, show_entrada_modal, show_saida_modal,
                       notices, downloads, passError, lastChat>>

\* delete_all_transactions()
StoreClear ==
    \E ok \in BOOLEAN :
        /\ store' = IF ok THEN delete_all_transactions(store) ELSE store
        /\ appended' = IF ok THEN <<>> ELSE appended
        /\ call' = [fn |-> "delete_all_transactions", df |-> <<>>,
                    xo |-> IF ok THEN "ok" ELSE "Exception", result |-> Raised(<<>>)]
        /\ UNCHANGED <<nextId, now, openpyxl, data, messages, show_entrada_modal,
                       show_saida_modal, notices, downloads, passError, lastChat>>

\* load_transactions_from_db(); call.df is the frame it returned
StoreLoad ==
    \E ok \in BOOLEAN :
      \E df \in load_transactions_from_db(store, ok) :
        /\ call' = [fn |-> "load_transactions_from_db", df |-> df,
                    xo |-> IF ok THEN "ok" ELSE "Exception", result |-> Raised(<<>>)]
        /\ UNCHANGED <<store, nextId, now, openpyxl, data, messages, show_entrada_modal,
                       show_saida_modal, notices, downloads, passError, lastChat,
                       appended>>

NextStore == StoreAppend \/ StoreClear \/ StoreLoad

\* The export library plays no part in the store
InitStore == Init /\ openpyxl

SpecStore == InitStore /\ [][NextStore]_vars

----------------------------------------------------------------------------
(* The export generator on its own: each function applied to an input      *)
(* frame under each outcome of the workbook writer.                        *)

RowsOf(tipo, categorias) ==
    {[Data |-> t, Categoria |-> c, Tipo |-> tipo, Valor |-> Float(f.valor),
      Descricao |-> DescricaoOuPadrao(f.desc)] :
        t \in 0..(MaxLen - 1), f \in Fillings, c \in Prefix(categorias, MaxCat)}

InputRows == RowsOf("Saída", categorias_saida) \cup RowsOf("Entrada", categorias_entrada)

InputFrames == UNION {[1..n -> InputRows] : n \in 0..MaxLen}

InitExport ==
    /\ store = <<>>
    /\ nextId = 1
    /\ now = 0
    /\ openpyxl \in BOOLEAN
    /\ data = <<>>
    /\ messages = <<>>
    /\ show_entrada_modal = FALSE
    /\ show_saida_modal = FALSE
    /\ notices = <<>>
    /\ downloads = {}
    /\ passError = NoError
    /\ lastChat = NoChat
    /\ appended = <<>>
    /\ \E df \in InputFrames, xo \in ExcelOutcomes(openpyxl) :
           call = [fn |-> "none", df |-> df, xo |-> xo, result |-> Raised(<<>>)]

CallExcelExport ==
    /\ call.fn = "none"
    /\ call' = [call EXCEPT !.fn = "create_excel_export",
                            !.result = create_excel_export(call.df, call.xo)]
    /\ UNCHANGED <<store, nextId, now, openpyxl, data, messages, show_entrada_modal,
                   show_saida_modal, notices, downloads, passError, lastChat, appended>>

CallBudgetSpreadsheet ==
    /\ call.fn = "none"
    /\ call' = [call EXCEPT !.fn = "create_budget_spreadsheet",
                            !.result = create_budget_spreadsheet(call.df, call.xo)]
    /\ UNCHANGED <<store, nextId, now, openpyxl, data, messages, show_entrada_modal,
                   show_saida_modal, notices, downloads, passError, lastChat, appended>>

NextExport == CallExcelExport \/ CallBudgetSpreadsheet

SpecExport == InitExport /\ [][NextExport]_vars

----------------------------------------------------------------------------
(* The chat handler on its own: a session as the dashboard leaves it, with *)
(* the ledger empty or holding one income row (with an expense in the      *)
(* ledger no pass gets as far as the chat), and then chat messages.        *)

ChatFrames == {<<>>} \cup {<<r>> : r \in RowsOf("Entrada", categorias_entrada)}

\* The table a frame was loaded from
TableOf(df) ==
    [i \in 1..Len(df) |->
        [id |-> i, data |-> df[i].Data, categoria |-> df[i].Categoria,
         tipo |-> df[i].Tipo, valor |-> df[i].Valor, descricao |-> df[i].Descricao]]

InitChat ==
    /\ openpyxl \in BOOLEAN
    /\ \E df \in ChatFrames :
         \E x1 \in TableWriter(df), x2 \in TableWriter(df) :
           /\ data = df
           /\ store = TableOf(df)
           /\ nextId = Len(df) + 1
           /\ now = IF df = <<>> THEN 0 ELSE df[1].Data
           /\ appended = [i \in 1..Len(df) |->
                             [Data |-> df[i].Data, Categoria |-> df[i].Categoria,
                              Tipo |-> df[i].Tipo, Valor |-> df[i].Valor]]
           /\ passError = KpiSection(df, x1, x2).error
           /\ downloads = KpiSection(df, x1, x2).downloads
           /\ notices = KpiSection(df, x1, x2).notices
           /\ messages = IF KpiSection(df, x1, x2).error = NoError
                         THEN Greeting(<<>>, df) ELSE <<>>
    /\ show_entrada_modal = FALSE
    /\ show_saida_modal = FALSE
    /\ lastChat = NoChat
    /\ call = NoCall

NextChat == ChatInput

SpecChat == InitChat /\ [][NextChat]_vars

----------------------------------------------------------------------------
(* The financial summary on its own: get_financial_summary applied to      *)
(* frames with up to TopN + 1 expense categories, one of them also an      *)
(* income category.                                                        *)

MaxResumo == 5

ResumoRow(categoria, tipo, valor) ==
    [Data |-> 0, Categoria |-> categoria, Tipo |-> tipo, Valor |-> Float(valor),
     Descricao |-> DescricaoOuPadrao("")]

\* Expenses in TopN + 1 categories, the last of them ("Investimentos") also
\* an income category, and income in that category and in one with no expenses
ResumoRows ==
    {ResumoRow(c, "Saída", v) : c \in Prefix(categorias_saida, TopN - 1),
                                v \in {4000, DefaultValor}}
    \cup {ResumoRow(categorias_saida[TopN], "Saída", DefaultValor),
          ResumoRow("Investimentos", "Saída", 4000)}
    \cup {ResumoRow(c, "Entrada", DefaultValor) : c \in {"Salário", "Investimentos"}}

ResumoFrames == UNION {[1..n -> ResumoRows] : n \in 0..MaxResumo}

InitResumo ==
    /\ store = <<>>
    /\ nextId = 1
    /\ now = 0
    /\ openpyxl = TRUE
    /\ data = <<>>
    /\ messages = <<>>
    /\ show_entrada_modal = FALSE
    /\ show_saida_modal = FALSE
    /\ notices = <<>>
    /\ downloads = {}
    /\ passError = NoError
    /\ lastChat = NoChat
    /\ appended = <<>>
    /\ \E df \in ResumoFrames :
           call = [fn |-> "none", df |-> df, xo |-> "ok", result |-> NoDataSummary]

CallFinancialSummary ==
    /\ call.fn = "none"
    /\ \E summary \in get_financial_summary(call.df) :
           call' = [call EXCEPT !.fn = "get_financial_summary", !.result = summary]
    /\ UNCHANGED <<store, nextId, now, openpyxl, data, messages, show_entrada_modal,
                   show_saida_modal, notices, downloads, passError, lastChat, appended>>

NextResumo == CallFinancialSummary

SpecResumo == InitResumo /\ [][NextResumo]_vars

----------------------------------------------------------------------------
(* The ledger's handlers on their own: the interactions that write or read *)
(* the table, and the buttons that open and close the two forms.           *)

NextLedger ==
    \/ SubmitEntryForm
    \/ RecarregarDoBanco
    \/ LimparDados
    \/ NovaEntrada
    \/ NovaSaida
    \/ ConfirmarEntrada
    \/ CancelarEntrada
    \/ ConfirmarSaida
    \/ CancelarSaida

SpecLedger == Init /\ [][NextLedger]_vars

----------------------------------------------------------------------------
(* Properties *)

\* The frame holds one row per recorded insert, each with the insert's
\* timestamp, category, kind and amount
SameRows(df, inserts) ==
    /\ Len(df) = Len(inserts)
    /\ \E p \in Permutations(1..Len(df)) :
           \A i \in 1..Len(df) :
               /\ df[i].Data = inserts[p[i]].Data
               /\ df[i].Categoria = inserts[p[i]].Categoria
               /\ df[i].Tipo = inserts[p[i]].Tipo
               /\ df[i].Valor = inserts[p[i]].Valor

NewestFirst(df) == \A i \in 1..(Len(df) - 1) : df[i + 1].Data <= df[i].Data

\* C1 as stated: after any successful inserts into an empty table, whatever
\* load_transactions_from_db returns is exactly the inserted transactions,
\* newest first.
C1_LoadReturnsAppended ==
    call.fn = "load_transactions_from_db" =>
        SameRows(call.df, appended) /\ NewestFirst(call.df)

\* C1 amended: a load whose read succeeds returns exactly the inserted
\* transactions (one row per insert, with its timestamp, category, kind and
\* amount), newest first; a load whose read fails returns the empty frame.
C1_SuccessfulLoadReturnsAppended ==
    /\ \A df \in load_transactions_from_db(store, TRUE) :
           SameRows(df, appended) /\ NewestFirst(df)
    /\ call.fn = "load_transactions_from_db" =>
           IF call.xo = "ok"
           THEN SameRows(call.df, appended) /\ NewestFirst(call.df)
           ELSE call.df = <<>>

\* Two inserts a second apart with different amounts, then a successful load,
\* which returns the later insert first
C1_Witness ==
    /\ call.fn = "load_transactions_from_db"
    /\ call.xo = "ok"
    /\ Len(appended) = 2
    /\ appended[1].Data < appended[2].Data
    /\ appended[1].Valor # appended[2].Valor
    /\ Len(call.df) = 2
    /\ call.df[1].Data = appended[2].Data

\* C5: once delete_all_transactions has succeeded, load_transactions_from_db
\* returns the empty frame, whether its read succeeds or fails and whatever was
\* inserted before.
C5_ClearThenLoadEmpty ==
    (call.fn = "delete_all_transactions" /\ call.xo = "ok") =>
        \A ok \in BOOLEAN : load_transactions_from_db(store, ok) = {<<>>}

\* A successful clear of a table that held two rows
C5_Witness ==
    /\ call.fn = "delete_all_transactions"
    /\ call.xo = "ok"
    /\ nextId = 3
    /\ store = <<>>

IsExport == call.fn \in {"create_excel_export", "create_budget_spreadsheet"}

\* C6 as stated: for a non-empty frame, when the workbook cannot be written
\* (library missing, or any other error) both export functions return their
\* fallback payload and do not raise.
C6_FallbackInsteadOfRaising ==
    (IsExport /\ call.df # <<>> /\ call.xo \in {"ImportError", "Exception"}) =>
        /\ ~call.result.raised
        /\ call.fn = "create_excel_export" =>
               call.result.tag = "csv" /\ call.result.payload.kind = "delimited"
        /\ call.fn = "create_budget_spreadsheet" =>
               call.result.tag = "txt" /\ call.result.payload.kind = "text"

\* The format a payload is in
FormatOf(payload) ==
    CASE payload.kind = "workbook" -> "xlsx"
      [] payload.kind = "delimited" -> "csv"
      [] payload.kind = "text" -> "txt"
      [] OTHER -> "none"

\* C7 as stated: on every path an export function returns a tag among xlsx,
\* csv, txt, and the tag is the format of the payload returned with it.
C7_TagIdentifiesFormat ==
    IsExport =>
        /\ ~call.result.raised
        /\ call.result.tag \in {"xlsx", "csv", "txt"}
        /\ call.result.tag = FormatOf(call.result.payload)

NoDataLabel == "Nenhuma transacao registrada ainda."

\* C9 as stated: for an empty frame both export functions return, without
\* raising, a non-empty payload labelled as holding no data.
C9_EmptyModelLabelled ==
    (IsExport /\ call.df = <<>>) =>
        /\ ~call.result.raised
        /\ call.result.payload.size > 0
        /\ call.result.payload.label = NoDataLabel

\* C9 amended: for an empty frame both export functions return, without
\* raising, a non-empty payload with no data rows; the budget export's payload
\* is the no-data sentence, the simple export's payload is the bare header line
\* of a CSV and its no-data notice is a warning on the page, not in the payload.
C9_EmptyModelPayload ==
    (IsExport /\ call.df = <<>>) =>
        /\ ~call.result.raised
        /\ call.result.payload.size > 0
        /\ call.result.payload.rows = <<>>
        /\ call.fn = "create_budget_spreadsheet" =>
               call.result.payload.label = NoDataLabel
        /\ call.fn = "create_excel_export" =>
               /\ call.result.payload.kind = "delimited"
               /\ call.result.payload.header = "Data,Categoria,Tipo,Valor,Descricao"
               /\ call.result.payload.label = ""
               /\ \E i \in 1..Len(call.result.notices) :
                      call.result.notices[i] =
                          Notice("warning", "Nenhuma transação para exportar!")

\* The simple export applied to the empty frame with the library present
C9_Witness ==
    /\ call.fn = "create_excel_export"
    /\ call.df = <<>>
    /\ call.xo = "ok"

\* The session frame holds the same rows as the table: same timestamp,
\* category, kind, amount and description, each as many times
Mirrors(df, st) ==
    /\ Len(df) = Len(st)
    /\ \E p \in Permutations(1..Len(st)) :
           \A i \in 1..Len(st) : df[i] = Columns(st[p[i]])

\* C2 as stated: in a session whose frame was loaded from the table, after
\* every interaction (a submission, "Limpar Dados", "Recarregar do Banco", the
\* store call succeeding or failing) the frame mirrors the table.
C2_ModelMirrorsStore == Mirrors(data, store)

Shown(notice) == \E i \in 1..Len(notices) : notices[i] = notice

\* C3 as stated: when the insert of a submission fails, no success
\* confirmation is reported for it.
C3_NoSuccessAfterFailedSave ==
    Shown(Notice("error", "Erro ao salvar transação")) =>
        /\ ~Shown(Notice("success", "Transação adicionada com sucesso!"))
        /\ ~Shown(Notice("success", "Entrada adicionada!"))
        /\ ~Shown(Notice("success", "Saída adicionada!"))

\* C4 as stated: in every reachable state the pass runs to its end without an
\* unhandled error.
C4_PassCompletes == passError = NoError

\* C8 as stated: every download offered for a generated export carries the
\* extension and MIME type of the tag its generator returned.
C8_DownloadMatchesTag ==
    \A d \in downloads :
        /\ d.tag = "xlsx" => d.file_ext = "xlsx" /\ d.mime = XlsxMime
        /\ d.tag = "csv" => d.file_ext = "csv" /\ d.mime = "text/csv"
        /\ d.tag = "txt" => d.file_ext = "txt" /\ d.mime = "text/plain"

\* The keyword set as the specification words it
EnglishKeywords ==
    {<<"s", "p", "r", "e", "a", "d", "s", "h", "e", "e", "t">>,
     <<"e", "x", "c", "e", "l">>,
     <<"e", "x", "p", "o", "r", "t">>,
     <<"d", "o", "w", "n", "l", "o", "a", "d">>,
     <<"b", "u", "d", "g", "e", "t">>,
     <<"r", "e", "p", "o", "r", "t">>,
     <<"d", "e", "t", "a", "i", "l", "e", "d", " ", "a", "n", "a", "l", "y", "s", "i", "s">>}

\* The nine substrings the code searches for, as written in the source
PortugueseKeywords ==
    {<<"p", "l", "a", "n", "i", "l", "h", "a">>,
     <<"e", "x", "c", "e", "l">>,
     <<"e", "x", "p", "o", "r", "t", "a", "r">>,
     <<"d", "o", "w", "n", "l", "o", "a", "d">>,
     <<"b", "a", "i", "x", "a", "r">>,
     <<"o", "r", "ç", "a", "m", "e", "n", "t", "o">>,
     <<"r", "e", "l", "a", "t", "ó", "r", "i", "o">>,
     <<"a", "n", "á", "l", "i", "s", "e", " ", "d", "e", "t", "a", "l", "h", "a", "d", "a">>,
     <<"s", "p", "r", "e", "a", "d", "s", "h", "e", "e", "t">>}

ChatHappened == lastChat.prompt # ""

ChatExportOffered == \E d \in downloads : d.origin \in {"chat_transacoes", "chat_orcamento"}

\* C10 as stated: the export offer is made exactly when the message holds one
\* of spreadsheet, excel, export, download, budget, report, detailed analysis
\* or the reply holds the sentinel; "qual meu saldo?" with a reply without the
\* sentinel makes no offer and "pode gerar um orçamento?" makes one.
C10_OfferIffEnglishKeywordOrSentinel ==
    ChatHappened =>
        LET msg == Lower(Chars(lastChat.prompt))
            sentinel == Contains(Chars(lastChat.response), Sentinel)
        IN  /\ lastChat.offered <=>
                   ((\E k \in EnglishKeywords : Contains(msg, k)) \/ sentinel)
            /\ ChatExportOffered <=> lastChat.offered
            /\ lastChat.prompt = "qual meu saldo?" /\ ~sentinel => ~lastChat.offered
            /\ lastChat.prompt = "pode gerar um orçamento?" => lastChat.offered

\* C10 amended: the export offer is made exactly when the message, lower-cased,
\* holds one of planilha, excel, exportar, download, baixar, orçamento,
\* relatório, análise detalhada, spreadsheet, or the reply holds
\* EXPORTAR_PLANILHA as written; without either no export is generated;
\* "qual meu saldo?" with a reply without the sentinel makes no offer and
\* "pode gerar um orçamento?" makes one.
C10_OfferIffKeywordOrSentinel ==
    ChatHappened =>
        LET msg == Lower(Chars(lastChat.prompt))
            sentinel == Contains(Chars(lastChat.response), Sentinel)
        IN  /\ lastChat.offered <=>
                   ((\E k \in PortugueseKeywords : Contains(msg, k)) \/ sentinel)
            /\ ChatExportOffered <=> lastChat.offered
            /\ lastChat.prompt = "qual meu saldo?" /\ ~sentinel => ~lastChat.offered
            /\ lastChat.prompt = "pode gerar um orçamento?" => lastChat.offered

\* A capitalised keyword and a reply without the sentinel: the offer is made
C10_Witness ==
    /\ lastChat.prompt = "Gere uma PLANILHA"
    /\ lastChat.response = "Seu saldo está positivo."
    /\ lastChat.offered
    /\ ChatExportOffered

----------------------------------------------------------------------------
(* The chat transcript *)

\* C11: a pass that handles a chat message is not aborted, and it extends the
\* transcript by the user's message followed by one assistant message (the
\* reply or the inline error text), leaving the earlier entries as they were.
\* A step is such a pass exactly when it leaves a prompt in lastChat.
C11_ChatAppendsUserThenAssistant ==
    [][lastChat'.prompt # "" =>
          /\ passError' = NoError
          /\ messages' = messages \o
                 <<Message("user", lastChat'.prompt, 0, 0),
                   Message("assistant", lastChat'.response, 0, 0)>>]_vars

\* C18: once a pass has finished, every user message of the transcript is
\* immediately followed by an assistant message.
C18_EveryUserMessageAnswered ==
    passError = NoError =>
        \A i \in 1..Len(messages) :
            messages[i].role = "user" =>
                /\ i < Len(messages)
                /\ messages[i + 1].role = "assistant"

\* C19: in the export branch of the chat the budget export's tag is never
\* read while unassigned: no pass ends in the NameError of line 954, and a
\* branch that ran to its end without the budget export (empty frame) had its
\* closing check decided by the simple export's tag 'csv'.
C19_FileType2NeverReadUnassigned ==
    /\ passError # ErrFileType2
    /\ (lastChat.offered /\ passError = NoError /\ lastChat.file_type2 = "unassigned") =>
           \E d \in downloads : d.origin = "chat_transacoes" /\ d.tag = "csv"

\* The export branch ran to its end on an empty frame, the budget export not
\* generated
C19_Witness ==
    /\ lastChat.offered
    /\ passError = NoError
    /\ data = <<>>
    /\ lastChat.file_type2 = "unassigned"
    /\ Shown(Notice("success", "Planilhas prontas para download!"))

----------------------------------------------------------------------------
(* The financial summary *)

RECURSIVE TotalOf(_, _, _)
\* The amounts of the rows of one kind among the first n rows, added up
TotalOf(df, n, tipo) ==
    IF n = 0 THEN 0
    ELSE TotalOf(df, n - 1, tipo) + (IF df[n].Tipo = tipo THEN df[n].Valor ELSE 0)

Summarized == call.fn = "get_financial_summary"

\* C12: the summary is the no-data sentence exactly when the frame is empty;
\* otherwise it reports the income total, the expense total, their
\* difference as the balance, and the number of rows.
C12_SummaryTotals ==
    Summarized =>
        /\ (call.result.text = "Nenhuma transação registrada ainda.") <=> (call.df = <<>>)
        /\ call.df # <<>> =>
              /\ call.result.entrada = TotalOf(call.df, Len(call.df), "Entrada")
              /\ call.result.saida = TotalOf(call.df, Len(call.df), "Saída")
              /\ call.result.saldo = call.result.entrada - call.result.saida
              /\ call.result.n = Len(call.df)

\* One income of 100.00 and one expense of 40.00: 100.00, 40.00, 60.00, 2
C12_Witness ==
    /\ Summarized
    /\ Len(call.df) = 2
    /\ call.df[1].Tipo = "Entrada"
    /\ call.df[2].Tipo = "Saída" /\ call.df[2].Valor = 4000
    /\ call.result.entrada = 10000
    /\ call.result.saida = 4000
    /\ call.result.saldo = 6000
    /\ call.result.n = 2

\* The expense rows of a category among the first n rows, added up
RECURSIVE ExpenseOf(_, _, _)
ExpenseOf(df, n, cat) ==
    IF n = 0 THEN 0
    ELSE ExpenseOf(df, n - 1, cat)
         + (IF df[n].Tipo = "Saída" /\ df[n].Categoria = cat THEN df[n].Valor ELSE 0)

ExpenseCategories(df) == {df[i].Categoria : i \in {j \in 1..Len(df) : df[j].Tipo = "Saída"}}

\* C13: the listed top categories are at most 3, are categories with expense
\* rows listed with their expense sums, none twice, none left out whose sum
\* exceeds a listed one, as many as there are up to 3, in descending order.
C13_TopCategories ==
    (Summarized /\ call.df # <<>>) =>
        LET top    == call.result.top
            df     == call.df
            listed == {top[i].cat : i \in 1..Len(top)}
        IN  /\ Len(top) <= 3
            /\ Len(top) = Min(3, Cardinality(ExpenseCategories(df)))
            /\ Cardinality(listed) = Len(top)
            /\ listed \subseteq ExpenseCategories(df)
            /\ \A i \in 1..Len(top) : top[i].val = ExpenseOf(df, Len(df), top[i].cat)
            /\ \A i \in 1..Len(top) : \A c \in ExpenseCategories(df) \ listed :
                   ExpenseOf(df, Len(df), c) <= top[i].val
            /\ \A i \in 1..(Len(top) - 1) : top[i].val >= top[i + 1].val

\* Four expense categories, not all with the same sum, and a category with
\* income only: three are listed
C13_Witness ==
    /\ Summarized
    /\ Cardinality(ExpenseCategories(call.df)) = 4
    /\ \E c, d \in ExpenseCategories(call.df) :
           ExpenseOf(call.df, Len(call.df), c) # ExpenseOf(call.df, Len(call.df), d)
    /\ \E i \in 1..Len(call.df) :
           /\ call.df[i].Tipo = "Entrada"
           /\ call.df[i].Categoria \notin ExpenseCategories(call.df)
    /\ Len(call.result.top) = 3

----------------------------------------------------------------------------
(* The table and the session frame *)

\* C14: a call of a store function leaves the table as it was, empties it, or
\* adds one row with a new id after the rows it held, each of which keeps
\* every field.
C14_StoreGainsOneRowOrEmpties ==
    [][\/ store' = store
       \/ store' = <<>>
       \/ /\ Len(store') = Len(store) + 1
          /\ \A i \in 1..Len(store) : store'[i] = store[i]
          /\ \A i \in 1..Len(store) : store'[Len(store')].id # store[i].id]_vars

\* A second row inserted in the same second as the first, which is kept
C14_Witness ==
    /\ call.fn = "save_transaction_to_db"
    /\ call.xo = "ok"
    /\ Len(store) = 2
    /\ store[1].data = store[2].data
    /\ store[1].id # store[2].id

\* C15: every row of the table and of the session frame has an amount above
\* zero, whichever of the three forms created it.
C15_AmountsPositive ==
    /\ \A i \in 1..Len(store) : store[i].valor > 0
    /\ \A i \in 1..Len(data) : data[i].Valor > 0

\* The smallest amount the income form accepts, saved and shown
C15_Witness ==
    /\ Shown(Notice("success", "Entrada adicionada!"))
    /\ Len(store) = 1 /\ store[1].valor = MinValor
    /\ Len(data) = 1 /\ data[1].Valor = MinValor

\* C17: a pass in which a store mutation failed (the error of
\* save_transaction_to_db or of delete_all_transactions is shown) leaves the
\* table and the session frame as they were.
C17_FailedMutationChangesNothing ==
    [][(\E i \in 1..Len(notices') :
           notices'[i] \in {Notice("error", "Erro ao salvar transação"),
                            Notice("error", "Erro ao limpar dados")})
       => (store' = store /\ data' = data)]_vars

\* "Limpar Dados" failed on a table and a frame that hold a row
C17_Witness ==
    /\ Shown(Notice("error", "Erro ao limpar dados"))
    /\ store # <<>>
    /\ data # <<>>
    /\ Mirrors(data, store)

----------------------------------------------------------------------------
(* The budget export's indicators *)

BudgetReported ==
    /\ call.fn = "create_budget_spreadsheet"
    /\ call.df # <<>>
    /\ ~call.result.raised

\* C16: the savings rate of the budget export, workbook and text report
\* alike, is balance / total income as a percentage (to the nearest tenth, as
\* printed) when there is income, and zero when there is none; the export
\* raises only when the workbook writer does.
C16_SavingsRate ==
    /\ BudgetReported =>
          LET taxa    == call.result.payload.indicadores.taxa
              income  == TotalOf(call.df, Len(call.df), "Entrada")
              balance == income - TotalOf(call.df, Len(call.df), "Saída")
              diff    == taxa * income - balance * 1000
          IN  IF income > 0
              THEN 2 * diff <= income /\ -2 * diff <= income
              ELSE taxa = 0
    /\ (call.fn = "create_budget_spreadsheet" /\ call.result.raised) => call.xo = "Exception"

\* The text report of a frame with expenses only: rate zero; no division
C16_Witness ==
    /\ BudgetReported
    /\ call.xo = "ImportError"
    /\ \A i \in 1..Len(call.df) : call.df[i].Tipo = "Saída"
    /\ call.result.tag = "txt"
    /\ call.result.payload.indicadores.saldo < 0
    /\ call.result.payload.indicadores.taxa = 0

====
